---- MODULE Spec2Model ----
(***************************************************************************)
(* A model of pml.js: the AMD-style `define` of src/pml.js, its registry   *)
(* `_modules`, the dependency fan-out/fan-in of `_runFactory`, `_require`  *)
(* and the script loads issued through `loadScript`.                       *)
(*                                                                         *)
(* JavaScript strings are sequences of one-character strings, so that the  *)
(* regular expressions and the split/join of the source are computed.      *)
(***************************************************************************)
EXTENDS Integers, Sequences, FiniteSets, TLC

-----------------------------------------------------------------------------
(* Bounds *)

\* The number of define calls in one execution.
MaxDefines == 3

\* The number of path segments of a base, and of a dependency id.
MaxBaseTerms == 2
MaxIdTerms == 3

-----------------------------------------------------------------------------
(* Strings *)

SLASH == "/"
BACKSLASH == "\\"
DOT == "."

\* String.prototype.indexOf(c) !== -1, for a one-character c.
Contains(s, c) == \E i \in 1..Len(s) : s[i] = c

\* The index of the first c in s at or after position from, 0 when there is none.
IndexFrom(s, c, from) ==
    IF \E i \in from..Len(s) : s[i] = c
    THEN CHOOSE i \in from..Len(s) : s[i] = c /\ \A j \in from..(i - 1) : s[j] # c
    ELSE 0

\* The index of the last c in s, 0 when there is none.
LastIndex(s, c) ==
    IF Contains(s, c)
    THEN CHOOSE i \in 1..Len(s) : s[i] = c /\ \A j \in (i + 1)..Len(s) : s[j] # c
    ELSE 0

\* String.prototype.split(c): the pieces of s between the occurrences of c.
RECURSIVE Split(_, _)
Split(s, c) ==
    LET i == IndexFrom(s, c, 1)
    IN  IF i = 0 THEN <<s>>
        ELSE <<SubSeq(s, 1, i - 1)>> \o Split(SubSeq(s, i + 1, Len(s)), c)

\* Array.prototype.join(c).
RECURSIVE Join(_, _)
Join(terms, c) ==
    IF terms = <<>> THEN <<>>
    ELSE IF Len(terms) = 1 THEN terms[1]
    ELSE terms[1] \o <<c>> \o Join(Tail(terms), c)

\* A pop that removes nothing.
PopNothing(terms) == terms

\* Array.prototype.pop(): nothing happens on an empty array.
Pop(terms) == IF terms = <<>> THEN <<>> ELSE SubSeq(terms, 1, Len(terms) - 1)

-----------------------------------------------------------------------------
(* Identifiers and paths *)

\* inferredId.match(/^(.*?)[^\/]*$/)[1]: everything up to and including the
\* last '/', the empty string when there is none.
Dirname(inferredId) == SubSeq(inferredId, 1, LastIndex(inferredId, SLASH))

\* Group 1 of /^([^\/]*\/\/[^\/]+\/)?(.*?)\/?$/ : the scheme://authority/ prefix
\* of base, the empty string when base does not start with one.
UrlPrefix(base) ==
    LET i == IndexFrom(base, SLASH, 1)
        j == IF i = 0 THEN 0 ELSE IndexFrom(base, SLASH, i + 2)
    IN  IF i # 0 /\ i + 1 <= Len(base) /\ base[i + 1] = SLASH /\ j > i + 2
        THEN SubSeq(base, 1, j)
        ELSE <<>>

\* Group 2 of the same expression: what follows the prefix, without one
\* trailing '/'.
UrlPath(base) ==
    LET rest == SubSeq(base, Len(UrlPrefix(base)) + 1, Len(base))
    IN  IF rest # <<>> /\ rest[Len(rest)] = SLASH
        THEN SubSeq(rest, 1, Len(rest) - 1)
        ELSE rest

\* id.match(/^\/?(.*?)\/?$/)[1]: id without one leading and one trailing '/'.
StripSlashes(id) ==
    LET s1 == IF id # <<>> /\ id[1] = SLASH THEN Tail(id) ELSE id
    IN  IF s1 # <<>> /\ s1[Len(s1)] = SLASH THEN SubSeq(s1, 1, Len(s1) - 1) ELSE s1

\* The loop over idTerms of _resolveRelativeId.
RECURSIVE WalkTerms(_, _)
WalkTerms(terms, idTerms) ==
    IF idTerms = <<>> THEN terms
    ELSE LET idTerm == idTerms[1]
         IN  IF idTerm = <<DOT>> THEN WalkTerms(terms, Tail(idTerms))
             ELSE IF idTerm = <<DOT, DOT>> THEN WalkTerms(Pop(terms), Tail(idTerms))
             ELSE WalkTerms(Append(terms, idTerm), Tail(idTerms))

_resolveRelativeId(base, id) ==
    IF id = <<>> \/ id[1] # DOT THEN id
    ELSE LET prefix == UrlPrefix(base)
             terms == IF UrlPath(base) # <<>> THEN Split(UrlPath(base), SLASH) ELSE <<>>
             idTerms == Split(StripSlashes(id), SLASH)
         IN  prefix \o Join(WalkTerms(terms, idTerms), SLASH)

EXPORTS == <<"e", "x", "p", "o", "r", "t", "s">>
REQUIRE == <<"r", "e", "q", "u", "i", "r", "e">>
MODULE_ == <<"m", "o", "d", "u", "l", "e">>

\* IsReserved with `module` forgotten.
IsReservedWithoutModule(dependencyId) ==
    dependencyId = EXPORTS \/ dependencyId = REQUIRE

\* The test of line 141: the ids that are not relativized.
IsReserved(dependencyId) ==
    dependencyId = EXPORTS \/ dependencyId = REQUIRE \/ dependencyId = MODULE_

-----------------------------------------------------------------------------
(* JavaScript values *)

\* A value: its kind, the characters of a string (or the tag of a function or
\* the text of a number or of an error), the elements of an array of strings,
\* and for an object literal the place <<request, index>> that allocated it.
JS(kind, str, arr, ref) == [kind |-> kind, str |-> str, arr |-> arr, ref |-> ref]

Undefined == JS("undefined", <<>>, <<>>, <<>>)
Num(text) == JS("number", <<text>>, <<>>, <<>>)
Str(chars) == JS("string", chars, <<>>, <<>>)
Arr(ids) == JS("array", <<>>, ids, <<>>)
Fn(tag) == JS("function", <<tag>>, <<>>, <<>>)
\* The literal {} of line 205, allocated while request r handles dependency i.
EmptyObject(r, i) == JS("object", <<>>, <<>>, <<r, i>>)
\* The literal { id: moduleId } of lines 209-211.
ModuleDescriptor(moduleId, r, i) == JS("descriptor", moduleId, <<>>, <<r, i>>)
\* new ReferenceError('The module "' + id + '" has not been loaded ...'), and
\* the other errors: the message, and the id the message names.
ErrorValue(message, id) == JS("error", <<message>>, <<id>>, <<>>)
\* An empty slot of the array `modules` of _runFactory; it reads as undefined.
Hole == JS("hole", <<>>, <<>>, <<>>)

\* ToBoolean: undefined, null, 0 and the empty string are falsy.
Truthy(v) ==
    /\ v.kind \notin {"undefined", "null", "hole"}
    /\ ~(v.kind = "number" /\ v.str = <<"0">>)
    /\ ~(v.kind = "string" /\ v.str = <<>>)

IsFunction(v) == v.kind = "function"
IsArray(v) == v.kind = "array"
IsString(v) == v.kind = "string"

\* a || b || c
Or3(a, b, c) == IF Truthy(a) THEN a ELSE IF Truthy(b) THEN b ELSE c

\* The messages of the errors the source raises.
InvalidIdentifierError == "TypeError: Please use / as module path delimiters"
AlreadyDefinedError == "Error: The module has already been defined"
NoBaseURIError == "Error: Unable to determine a module id: No baseURI for the document"
NullScriptError == "TypeError: script is null"
CalbackError == "ReferenceError: calback is not defined"
DependencyNotLoadedError == "ReferenceError: The module has not been loaded"
FactoryError == "Error thrown by the factory"
NoError == "none"

\* factory.apply(null, modules) for the factories of the model: "first" returns
\* its first argument (undefined when it has none), "throw" raises.
Apply(factory, args) ==
    CASE factory.str = <<"throw">> -> [threw |-> TRUE, val |-> Undefined]
      [] OTHER ->
            [threw |-> FALSE,
             val |-> IF Len(args) = 0 \/ args[1] = Hole THEN Undefined ELSE args[1]]

-----------------------------------------------------------------------------
(* The execution context read by _inferModuleId *)

\* document.currentScript (script = FALSE: null), its `as` and `src`
\* attributes, and the baseURI of its document.  A src is an absolute URL in
\* canonical form, which new URL(src, baseURI).toString() returns as it is.
Context(script, hasAs, as, hasSrc, src, baseURI) ==
    [script |-> script, hasAs |-> hasAs, as |-> as,
     hasSrc |-> hasSrc, src |-> src, baseURI |-> baseURI]

\* The outcome of _inferModuleId(): the error it raises, or the id it returns.
_inferModuleId(ctx) ==
    IF ~ctx.script THEN [error |-> NullScriptError, id |-> <<>>]
    ELSE IF ctx.hasAs THEN [error |-> NoError, id |-> ctx.as]
    ELSE IF ctx.baseURI = <<>> THEN [error |-> NoBaseURIError, id |-> <<>>]
    ELSE IF ctx.hasSrc THEN [error |-> NoError, id |-> ctx.src]
    ELSE [error |-> NoError, id |-> ctx.baseURI]

-----------------------------------------------------------------------------
(* State *)

VARIABLES
    _modules,   \* the registry: a function from the ids defined so far to exports
    reqs,       \* one record per define call, in call order: the closure of
                \* _runFactory (unresolved, modules, requireError) and its history
    loads,      \* the scripts appended by loadScript whose onload has not fired
    resolution  \* one call of _resolveRelativeId: its arguments and its result

vars == <<_modules, reqs, loads, resolution>>

\* id in _modules (line 50, line 212).
IsDefined(reg, id) == id \in DOMAIN reg

\* _modules[id] read as an expression: undefined when id is absent.
Lookup(reg, id) == IF id \in DOMAIN reg THEN reg[id] ELSE Undefined

\* _modules[id] = module (line 64).
Put(reg, id, module) ==
    [k \in DOMAIN reg \cup {id} |-> IF k = id THEN module ELSE reg[k]]

\* HasBackslash with the test left out.
HasBackslashNever(id) == FALSE

\* id.indexOf('\\') !== -1 (line 46).
HasBackslash(id) == Contains(id, BACKSLASH)

-----------------------------------------------------------------------------
(* _runFactory: the callback given to _require, lines 145-162 *)

\* Store as modules.push(dependency): the exports in completion order.
StorePush(modules, dependencyIndex, dependency) == Append(modules, dependency)

\* modules[dependencyIndex] = dependency: a write past the end of a JavaScript
\* array leaves holes before it.
RECURSIVE Store(_, _, _)
Store(modules, dependencyIndex, dependency) ==
    IF dependencyIndex <= Len(modules)
    THEN [modules EXCEPT ![dependencyIndex] = dependency]
    ELSE Store(Append(modules, Hole), dependencyIndex, dependency)

\* NoErrorSoFar with the flag ignored.
NoErrorSoFarIgnored(rq) == TRUE

\* if (!requireError), line 147.
NoErrorSoFar(rq) == ~rq.requireError

\* AllResolved off by one.
AllResolvedOffByOne(unresolvedDependencies) == unresolvedDependencies <= 1

\* unresolvedDependencies === 0, lines 134 and 156.
AllResolved(unresolvedDependencies) == unresolvedDependencies = 0

\* InvokeFactory with the exception of the factory caught and undefined committed.
InvokeFactoryCatching(rq, modules) ==
    LET res == Apply(rq.factory, modules)
    IN  [rq EXCEPT !.calls = @ + 1,
                   !.args = modules,
                   !.state = "committed",
                   !.commits = @ + 1,
                   !.ret = res.val]

\* callback(undefined, factory.apply(null, modules)), lines 136 and 158, with
\* the completion callback of define (lines 58-65) recorded in state and ret.
InvokeFactory(rq, modules) ==
    LET res == Apply(rq.factory, modules)
    IN  [rq EXCEPT !.calls = @ + 1,
                   !.args = modules,
                   !.state = IF res.threw THEN "threw" ELSE "committed",
                   !.commits = IF res.threw THEN @ ELSE @ + 1,
                   !.ret = res.val]

\* The callback of lines 145-162 called with (error, dependency) for the
\* dependency at dependencyIndex.  settled and order record the call itself:
\* what _require handed over for each index, and in which order.
OnRequire(rq, dependencyIndex, error, dependency) ==
    LET seen == [rq EXCEPT !.settled[dependencyIndex] =
                               IF Truthy(error) THEN error ELSE dependency,
                           !.order = Append(@, dependencyIndex)]
    IN  IF ~NoErrorSoFar(rq) THEN seen
        ELSE IF Truthy(error)
        THEN [seen EXCEPT !.requireError = TRUE,
                          !.errors = @ + 1,
                          !.error = error,
                          !.state = "failed"]
        ELSE LET modules == Store(rq.modules, dependencyIndex, dependency)
                 stored == [seen EXCEPT !.modules = modules, !.unresolved = @ - 1]
             IN  IF AllResolved(stored.unresolved)
                 THEN InvokeFactory(stored, modules)
                 ELSE stored

-----------------------------------------------------------------------------
(* _require, lines 203-227, up to the call of loadScript *)

\* _require that asks loadScript for every unit, defined or not.
_requireAlwaysLoad(reg, id, moduleId, r, i) ==
    IF id = EXPORTS THEN [kind |-> "settle", value |-> EmptyObject(r, i)]
    ELSE IF id = REQUIRE THEN [kind |-> "throw", value |-> Undefined]
    ELSE IF id = MODULE_ THEN [kind |-> "settle", value |-> ModuleDescriptor(moduleId, r, i)]
    ELSE [kind |-> "load", value |-> Undefined]

\* What _require(id, moduleId, callback) does before it returns: it calls back
\* with a value, raises, or asks loadScript for the unit.
_require(reg, id, moduleId, r, i) ==
    IF id = EXPORTS THEN [kind |-> "settle", value |-> EmptyObject(r, i)]
    ELSE IF id = REQUIRE THEN [kind |-> "throw", value |-> Undefined]
    ELSE IF id = MODULE_ THEN [kind |-> "settle", value |-> ModuleDescriptor(moduleId, r, i)]
    ELSE IF ~IsDefined(reg, id) THEN [kind |-> "load", value |-> Undefined]
    ELSE [kind |-> "settle", value |-> reg[id]]

\* if (_modules[id]), line 217: the test made when the load completes.
Loaded(reg, id) == Truthy(Lookup(reg, id))

\* The forEach of lines 139-163 from dependency index i on, for request r.  An
\* exception (the ReferenceError of line 207, or one raised by the factory)
\* leaves the loop and define with it.
RECURSIVE ForEach(_, _, _, _, _)
ForEach(reg, rq, base, r, i) ==
    IF i > Len(rq.dependencies) THEN rq
    ELSE LET declared == rq.dependencies[i]
             dependencyId == IF ~IsReserved(declared)
                             THEN _resolveRelativeId(base, declared)
                             ELSE declared
             rq1 == [rq EXCEPT !.resolved = IF ~IsReserved(declared)
                                            THEN @ \cup {i} ELSE @,
                               !.depIds = Append(@, dependencyId)]
             out == _require(reg, dependencyId, rq.moduleId, r, i)
         IN  CASE out.kind = "throw" -> [rq1 EXCEPT !.thrown = CalbackError]
               [] out.kind = "load" ->
                    ForEach(reg, [rq1 EXCEPT !.loaded = @ \cup {i}], base, r, i + 1)
               [] OTHER ->
                    LET rq2 == OnRequire(rq1, i, Undefined, out.value)
                    IN  IF rq2.state = "threw"
                        THEN [rq2 EXCEPT !.thrown = FactoryError]
                        ELSE ForEach(reg, rq2, base, r, i + 1)

\* _runFactory(moduleId, base, dependencies, factory, callback), lines 121-165.
_runFactory(reg, rq, base, r) ==
    IF ~IsFunction(rq.factory)
    THEN [rq EXCEPT !.state = "committed", !.commits = @ + 1, !.ret = rq.factory]
    ELSE IF AllResolved(rq.unresolved)
    THEN LET rq1 == InvokeFactory(rq, <<>>)
         IN  IF rq1.state = "threw" THEN [rq1 EXCEPT !.thrown = FactoryError] ELSE rq1
    ELSE ForEach(reg, rq, base, r, 1)

-----------------------------------------------------------------------------
(* define, lines 32-66 *)

\* A call define(a1, a2, a3) made in execution context ctx; an argument the
\* caller leaves out is undefined.  given is the last argument the caller
\* supplies: the factory, or the value to export.
Call(ctx, a1, a2, a3, given) ==
    [ctx |-> ctx, a1 |-> a1, a2 |-> a2, a3 |-> a3, given |-> given]

\* NewRequest with the id inferred only when the caller gives none.
NewRequestLazy(c) ==
    LET dependencies == IF IsArray(c.a2) THEN c.a2.arr
                        ELSE IF IsArray(c.a1) THEN c.a1.arr ELSE <<>>
        inferred == _inferModuleId(c.ctx)
    IN  [ctx |-> c.ctx,
         given |-> c.given,
         factory |-> Or3(c.a3, c.a2, c.a1),
         dependencies |-> dependencies,
         moduleId |-> IF IsString(c.a1) THEN c.a1.str ELSE inferred.id,
         inferCalls |-> IF IsString(c.a1) THEN 0 ELSE 1,
         thrown |-> IF IsString(c.a1) THEN NoError ELSE inferred.error,
         state |-> "rejected",
         unresolved |-> Len(dependencies),
         modules |-> <<>>,
         requireError |-> FALSE,
         depIds |-> <<>>,
         resolved |-> {},
         loaded |-> {},
         settled |-> [i \in 1..Len(dependencies) |-> Hole],
         calls |-> 0,
         args |-> <<>>,
         errors |-> 0,
         error |-> Undefined,
         order |-> <<>>,
         commits |-> 0,
         ret |-> Undefined]

\* The record of the r-th define call, before validation.
NewRequest(c) ==
    LET dependencies == IF IsArray(c.a2) THEN c.a2.arr
                        ELSE IF IsArray(c.a1) THEN c.a1.arr ELSE <<>>
        inferred == _inferModuleId(c.ctx)
    IN  [ctx |-> c.ctx,
         given |-> c.given,
         factory |-> Or3(c.a3, c.a2, c.a1),
         dependencies |-> dependencies,
         moduleId |-> IF IsString(c.a1) THEN c.a1.str ELSE inferred.id,
         inferCalls |-> 1,
         thrown |-> inferred.error,
         state |-> "rejected",
         unresolved |-> Len(dependencies),
         modules |-> <<>>,
         requireError |-> FALSE,
         depIds |-> <<>>,
         resolved |-> {},
         loaded |-> {},
         settled |-> [i \in 1..Len(dependencies) |-> Hole],
         calls |-> 0,
         args |-> <<>>,
         errors |-> 0,
         error |-> Undefined,
         order |-> <<>>,
         commits |-> 0,
         ret |-> Undefined]

\* The whole of define for the r-th call, in registry reg: the request as it is
\* when define returns or raises.
define(reg, c, r) ==
    LET rq == NewRequest(c)
        inferredId == _inferModuleId(c.ctx).id
        base == Dirname(inferredId)
    IN  IF rq.thrown # NoError THEN rq
        ELSE IF HasBackslash(rq.moduleId) THEN [rq EXCEPT !.thrown = InvalidIdentifierError]
        ELSE IF IsDefined(reg, rq.moduleId) THEN [rq EXCEPT !.thrown = AlreadyDefinedError]
        ELSE _runFactory(reg, [rq EXCEPT !.state = "waiting"], base, r)

\* The completion callback of lines 58-65 on the registry: the request that has
\* just produced its module writes it under its id.
DefineCallback(reg, before, after) ==
    IF after.commits > before.commits THEN Put(reg, after.moduleId, after.ret) ELSE reg

-----------------------------------------------------------------------------
(* Inputs *)

A == <<"a">>
X == <<"x">>
AB == <<"a", BACKSLASH, "b">>
RelX == <<DOT, SLASH, "x">>
Location == <<"h", ":", "/", "/", "d", "/", "p", "/", "b">>

CtxAlias(as) == Context(TRUE, TRUE, as, FALSE, <<>>, Location)
CtxSrc == Context(TRUE, FALSE, <<>>, TRUE, Location, Location)
CtxDoc == Context(TRUE, FALSE, <<>>, FALSE, <<>>, Location)
CtxNoBase == Context(TRUE, FALSE, <<>>, FALSE, <<>>, <<>>)
CtxNull == Context(FALSE, FALSE, <<>>, FALSE, <<>>, <<>>)

\* The dependency lists of a unit that carries the alias x.
DepLists ==
    { <<>>, <<X>>, <<X, A>>, <<X, MODULE_>>, <<EXPORTS, MODULE_>>, <<X, REQUIRE, A>> }

Values == { Num("42"), Num("0") }

\* define(id, deps, factory), define(id, factory), define(deps, factory) and
\* define(factory) in a unit that carries the alias x.
FactoryCalls ==
    { Call(CtxAlias(X), Str(A), Arr(deps), Fn("first"), Fn("first")) : deps \in DepLists }
    \cup { Call(CtxAlias(X), Str(A), Arr(<<X>>), Fn("throw"), Fn("throw")),
           Call(CtxAlias(X), Str(A), Fn("throw"), Undefined, Fn("throw")),
           Call(CtxAlias(X), Arr(<<EXPORTS, MODULE_>>), Fn("first"), Undefined, Fn("first")),
           Call(CtxAlias(X), Fn("first"), Undefined, Undefined, Fn("first")) }

\* define(id, value), define(id, deps, value), define(value), and
\* define(id, array) whose value is the array.
ValueCalls ==
    { Call(CtxAlias(X), Str(A), v, Undefined, v) : v \in Values }
    \cup { Call(CtxAlias(X), Str(A), Arr(<<X>>), v, v) : v \in Values }
    \cup { Call(CtxAlias(X), Str(A), Arr(<<X>>), Undefined, Arr(<<X>>)),
           Call(CtxAlias(X), Num("42"), Undefined, Undefined, Num("42")) }

\* Units with a relative dependency, and units named by their location.
LocatedCalls ==
    { Call(CtxSrc, Str(A), Arr(<<RelX>>), Fn("first"), Fn("first")),
      Call(CtxAlias(X), Str(A), Arr(<<RelX>>), Fn("first"), Fn("first")),
      Call(CtxDoc, Num("42"), Undefined, Undefined, Num("42")) }

\* Calls with a backslash in the id, and calls where no id can be inferred.
InvalidCalls ==
    { Call(ctx, Str(AB), Arr(<<X>>), Fn("first"), Fn("first")) : ctx \in {CtxAlias(X), CtxNoBase} }
    \cup { Call(CtxNull, Str(A), Arr(<<X>>), Fn("first"), Fn("first")) }
    \cup { Call(CtxAlias(AB), Arr(<<X>>), Fn("first"), Undefined, Fn("first")) }

DefineCalls == FactoryCalls \cup ValueCalls \cup LocatedCalls \cup InvalidCalls

\* Paths: a base is an optional scheme://authority/ prefix, then segments
\* joined by '/', then an optional '/'; an id is segments joined by '/', then
\* an optional '/'.
Authority == <<"h", ":", "/", "/", "d", "/">>
Prefixes == { <<>>, Authority }
BaseTerms == { <<"a">>, <<"b">> }
IdTerms == { <<DOT>>, <<DOT, DOT>>, <<"c">> }

\* The lists of at most n elements of S.
ListsUpTo(S, n) == UNION { [1..k -> S] : k \in 0..n }

\* The string of a path given by its segments.
PathString(prefix, terms, slash) ==
    prefix \o Join(terms, SLASH) \o (IF slash /\ terms # <<>> THEN <<SLASH>> ELSE <<>>)

\* The calls _resolveRelativeId(base, id) over these paths, before they return.
Resolutions ==
    { [prefix |-> prefix, terms |-> terms, idTerms |-> idTerms,
       base |-> PathString(prefix, terms, slash),
       id |-> PathString(<<>>, idTerms, idSlash),
       returned |-> FALSE, result |-> <<>>] :
         prefix \in Prefixes, terms \in ListsUpTo(BaseTerms, MaxBaseTerms),
         slash \in BOOLEAN,
         idTerms \in ListsUpTo(IdTerms, MaxIdTerms) \ {<<>>}, idSlash \in BOOLEAN }

\* No call of _resolveRelativeId is under study.
NoResolution ==
    [prefix |-> <<>>, terms |-> <<>>, idTerms |-> <<>>, base |-> <<>>, id |-> <<>>,
     returned |-> FALSE, result |-> <<>>]

-----------------------------------------------------------------------------
(* Actions *)

Init ==
    /\ _modules = [k \in {} |-> Undefined]
    /\ reqs = <<>>
    /\ loads = {}
    /\ resolution = NoResolution

\* A unit of code calls define.
Define(c) ==
    /\ Len(reqs) < MaxDefines
    /\ LET r == Len(reqs) + 1
           rq == define(_modules, c, r)
       IN  /\ reqs' = Append(reqs, rq)
           /\ _modules' = DefineCallback(_modules, NewRequest(c), rq)
           /\ loads' = loads \cup { [r |-> r, i |-> i, id |-> rq.depIds[i]] : i \in rq.loaded }
           /\ UNCHANGED resolution

\* script.onload of a script appended by loadScript fires: lines 214-223.
LoadComplete(l) ==
    /\ l \in loads
    /\ LET rq == reqs[l.r]
           after == IF Loaded(_modules, l.id)
                    THEN OnRequire(rq, l.i, Undefined, Lookup(_modules, l.id))
                    ELSE OnRequire(rq, l.i, ErrorValue(DependencyNotLoadedError, l.id),
                                   Undefined)
       IN  /\ reqs' = [reqs EXCEPT ![l.r] = after]
           /\ _modules' = DefineCallback(_modules, rq, after)
           /\ loads' = loads \ {l}
           /\ UNCHANGED resolution

\* The script cannot be fetched: loadScript sets no onerror, so nothing runs.
LoadError(l) ==
    /\ l \in loads
    /\ loads' = loads \ {l}
    /\ UNCHANGED <<_modules, reqs, resolution>>

Next ==
    \/ \E c \in DefineCalls : Define(c)
    \/ \E l \in loads : LoadComplete(l)
    \/ \E l \in loads : LoadError(l)

Spec == Init /\ [][Next]_vars

-----------------------------------------------------------------------------
(* _resolveRelativeId on its own, lines 172-194 *)

InitResolve ==
    /\ _modules = [k \in {} |-> Undefined]
    /\ reqs = <<>>
    /\ loads = {}
    /\ resolution \in Resolutions

\* The call returns.
Resolve ==
    /\ ~resolution.returned
    /\ resolution' = [resolution EXCEPT
                         !.returned = TRUE,
                         !.result = _resolveRelativeId(resolution.base, resolution.id)]
    /\ UNCHANGED <<_modules, reqs, loads>>

NextResolve == Resolve

SpecResolve == InitResolve /\ [][NextResolve]_vars

-----------------------------------------------------------------------------
(* A chain of loaded units: a -> b -> c *)

B == <<"b">>
C == <<"c">>

\* 'components/jquery/dist/' + id + '.js' (line 214), against the base URI of
\* the document.
ScriptSrc(id) ==
    Dirname(Location)
    \o <<"c", "o", "m", "p", "o", "n", "e", "n", "t", "s", SLASH,
          "j", "q", "u", "e", "r", "y", SLASH, "d", "i", "s", "t", SLASH>>
    \o id \o <<DOT, "j", "s">>

\* The context of the unit in the script that loadScript appends for id: the
\* script has a src and no alias.
CtxLoaded(id) == Context(TRUE, FALSE, <<>>, TRUE, ScriptSrc(id), Location)

\* define('a', [.. 'b' ..], f) in an inline script of the document.
RootCalls ==
    { Call(CtxDoc, Str(A), Arr(deps), Fn("first"), Fn("first")) :
        deps \in { <<B>>, <<B, EXPORTS>>, <<EXPORTS, B>>, <<MODULE_, B>> } }

\* What the unit loaded for id calls: b is define('b', ['c'], f), c is
\* define('c', value) or define('c', ['exports'], f).
UnitCalls(id) ==
    IF id = B
    THEN { Call(CtxLoaded(B), Str(B), Arr(deps), Fn(f), Fn(f)) :
             deps \in { <<C>>, <<C, EXPORTS>> }, f \in {"first", "throw"} }
    ELSE { Call(CtxLoaded(C), Str(C), v, Undefined, v) : v \in Values }
         \cup { Call(CtxLoaded(C), Str(C), Arr(<<EXPORTS>>), Fn("first"), Fn("first")) }

\* The unit of the script appended for id has run.
HasRun(id) == \E r \in 1..Len(reqs) : reqs[r].ctx = CtxLoaded(id)

\* The page calls define('a', ...).
RootDefine(c) ==
    /\ reqs = <<>>
    /\ Define(c)

\* The script appended for load l has been fetched and runs: it calls define.
UnitRuns(l, c) ==
    /\ l \in loads
    /\ ~HasRun(l.id)
    /\ Define(c)

\* onload of the script of load l: it fires after the script has run.  (The
\* browser fires it right after the run; here other loads may complete in
\* between, which only adds interleavings.)
OnLoad(l) ==
    /\ HasRun(l.id)
    /\ LoadComplete(l)

NextChain ==
    \/ \E c \in RootCalls : RootDefine(c)
    \/ \E l \in loads : \E c \in UnitCalls(l.id) : UnitRuns(l, c)
    \/ \E l \in loads : OnLoad(l)

\* Every load is fetched; the units call define as above.
SpecChain == Init /\ [][NextChain]_vars

-----------------------------------------------------------------------------
(* Code outside the core: define._modules, lines 68-69 *)

\* define._modules is the registry object itself, so any code that holds define
\* can assign to it: define._modules[id] = value.
ExternalPut(id, value) ==
    /\ _modules' = Put(_modules, id, value)
    /\ _modules' # _modules
    /\ UNCHANGED <<reqs, loads, resolution>>

\* delete define._modules[id].
ExternalDelete(id) ==
    /\ id \in DOMAIN _modules
    /\ _modules' = [k \in DOMAIN _modules \ {id} |-> _modules[k]]
    /\ UNCHANGED <<reqs, loads, resolution>>

NextExternal ==
    \/ Next
    \/ \E id \in {A} : ExternalPut(id, Num("42"))
    \/ \E id \in {A} : ExternalDelete(id)

\* The core together with code that uses define._modules.
SpecExternal == Init /\ [][NextExternal]_vars

-----------------------------------------------------------------------------
(* Properties *)

Reqs == 1..Len(reqs)

\* The step is a define call; NewReq is its request as define leaves it.
DefineStep == Len(reqs') = Len(reqs) + 1
NewReq == reqs'[Len(reqs')]

InferenceErrors == {NoBaseURIError, NullScriptError}
ReservedIds == {EXPORTS, REQUIRE, MODULE_}

\* The dependency at index i of rq was handed a value (not an error).
SettledOk(rq, i) == rq.settled[i].kind \notin {"hole", "error"}
SettledError(rq, i) == rq.settled[i].kind = "error"

\* C1: a define call whose id is that of an earlier define call which passed
\* validation and has not failed (committed, or still waiting for its
\* dependencies) fails with AlreadyDefinedError and leaves the registry as it is.
C1_DuplicateDefineFails ==
    [][DefineStep =>
        ((/\ NewReq.thrown \notin InferenceErrors
          /\ \E r \in Reqs : /\ reqs[r].moduleId = NewReq.moduleId
                             /\ reqs[r].thrown = NoError
                             /\ reqs[r].state \in {"waiting", "committed"})
         => (NewReq.thrown = AlreadyDefinedError /\ _modules' = _modules))]_vars

\* C2: the registry is write-once: an id that is present stays present with
\* the same export in every later state.
C2_RegistryWriteOnce ==
    [][\A id \in DOMAIN _modules :
          id \in DOMAIN _modules' /\ _modules'[id] = _modules[id]]_vars

\* The position in rq.order of the first dependency that settled with an error.
FirstErrorAt(rq) ==
    CHOOSE k \in 1..Len(rq.order) :
        /\ SettledError(rq, rq.order[k])
        /\ \A j \in 1..(k - 1) : ~SettledError(rq, rq.order[j])

\* C3: first failure wins: when a dependency of a define with a callable
\* factory has settled with an error, the factory has not been invoked, the
\* define has committed nothing, and exactly one error, the first to occur, has
\* been given to the completion callback, whatever the siblings did after it.
C3_FirstFailureWins ==
    \A r \in Reqs :
        LET rq == reqs[r]
        IN  (/\ IsFunction(rq.factory)
             /\ Len(rq.dependencies) >= 1
             /\ \E i \in 1..Len(rq.dependencies) : SettledError(rq, i))
            => /\ rq.calls = 0
               /\ rq.commits = 0
               /\ rq.errors = 1
               /\ rq.error = rq.settled[rq.order[FirstErrorAt(rq)]]
               /\ rq.state = "failed"

\* A dependency failed first and its sibling succeeded afterwards.
C3_Witness ==
    \E r \in Reqs :
        /\ Len(reqs[r].order) = 2
        /\ SettledError(reqs[r], reqs[r].order[1])
        /\ SettledOk(reqs[r], reqs[r].order[2])
        /\ reqs[r].errors = 1

\* C4: declaration order: a factory invoked for n >= 1 dependencies was given
\* exactly n arguments, argument i being the export the request for
\* dependency i settled with, in whatever order the requests completed.
C4_DeclarationOrder ==
    \A r \in Reqs :
        LET rq == reqs[r]
        IN  (rq.calls >= 1 /\ Len(rq.dependencies) >= 1)
            => /\ Len(rq.args) = Len(rq.dependencies)
               /\ \A i \in 1..Len(rq.dependencies) :
                     SettledOk(rq, i) /\ rq.args[i] = rq.settled[i]

\* The later-declared dependency settled before the earlier one, with
\* different exports.
C4_Witness ==
    \E r \in Reqs :
        /\ reqs[r].calls = 1
        /\ reqs[r].order = <<2, 1>>
        /\ reqs[r].args[1] # reqs[r].args[2]

\* The request r before the step: a define call starts with no invocation.
CallsBefore(r) == IF r <= Len(reqs) THEN reqs[r].calls ELSE 0

\* C5: a callable factory is invoked at most once; it is invoked only with the
\* unresolved count at zero and no failure reported, and what it returns is
\* then in the registry under the id of the define; it has been invoked once
\* when every dependency has settled successfully.
C5_FactoryOnce ==
    [][\A r \in 1..Len(reqs') :
          LET rq == reqs'[r]
          IN  (IsFunction(rq.given) /\ rq.state # "rejected")
              => /\ rq.calls <= 1
                 /\ (rq.calls > CallsBefore(r)
                       => /\ rq.unresolved = 0
                          /\ ~rq.requireError
                          /\ rq.errors = 0
                          /\ (rq.state = "committed"
                                => /\ rq.ret = Apply(rq.given, rq.args).val
                                   /\ rq.moduleId \in DOMAIN _modules'
                                   /\ _modules'[rq.moduleId] = rq.ret))
                 /\ ((\A i \in 1..Len(rq.dependencies) : SettledOk(rq, i))
                       => rq.calls = 1)]_vars

\* A factory with two dependencies, one of them loaded, ran and its result is
\* in the registry.
C5_Witness ==
    \E r \in Reqs :
        /\ reqs[r].calls = 1
        /\ Len(reqs[r].dependencies) = 2
        /\ reqs[r].loaded # {}
        /\ reqs[r].state = "committed"
        /\ reqs[r].moduleId \in DOMAIN _modules
        /\ _modules[reqs[r].moduleId] = reqs[r].ret

\* C6: a define of a fresh valid id with a non-callable value v (falsy values
\* and arrays included) commits exactly v, requests no dependency and invokes
\* no factory.
C6_ValueCommitted ==
    \A r \in Reqs :
        LET rq == reqs[r]
        IN  (~IsFunction(rq.given) /\ rq.state # "rejected")
            => /\ rq.state = "committed"
               /\ rq.ret = rq.given
               /\ rq.loaded = {}
               /\ rq.calls = 0

\* C7 as stated: every define call whose id holds a backslash fails with
\* InvalidIdentifierError.
C7_BackslashAlwaysInvalid ==
    \A r \in Reqs :
        Contains(reqs[r].moduleId, BACKSLASH) => reqs[r].thrown = InvalidIdentifierError

\* C7: a define call whose id holds a backslash fails: with
\* InvalidIdentifierError when the execution context yields an id, with the
\* error of the inference otherwise; the registry is unchanged, no dependency
\* is requested and the factory is not invoked.
C7_BackslashRejected ==
    [][DefineStep =>
        (Contains(NewReq.moduleId, BACKSLASH)
         => /\ NewReq.thrown \in InferenceErrors \cup {InvalidIdentifierError}
            /\ (NewReq.thrown \notin InferenceErrors => NewReq.thrown = InvalidIdentifierError)
            /\ NewReq.state = "rejected"
            /\ _modules' = _modules
            /\ loads' = loads
            /\ NewReq.resolved = {} /\ NewReq.loaded = {} /\ NewReq.order = <<>>
            /\ NewReq.calls = 0 /\ NewReq.commits = 0)]_vars

\* A call with a backslash id was rejected while the registry held a module
\* and a load was in flight.
C7_Witness ==
    /\ Len(reqs) >= 1
    /\ Contains(reqs[Len(reqs)].moduleId, BACKSLASH)
    /\ reqs[Len(reqs)].thrown = InvalidIdentifierError
    /\ DOMAIN _modules # {}
    /\ loads # {}

\* C8: a dependency position that holds exports, require or module is never
\* given to _resolveRelativeId and never causes a load.
C8_ReservedNotResolved ==
    \A r \in Reqs :
        \A i \in 1..Len(reqs[r].dependencies) :
            reqs[r].dependencies[i] \in ReservedIds
            => /\ i \notin reqs[r].resolved
               /\ i \notin reqs[r].loaded
               /\ \A l \in loads : ~(l.r = r /\ l.i = i)

\* A request reached a reserved dependency, and resolved and loaded another.
C8_Witness ==
    \E r \in Reqs :
        /\ \E i \in 1..Len(reqs[r].depIds) : reqs[r].dependencies[i] \in ReservedIds
        /\ reqs[r].resolved # {}
        /\ reqs[r].loaded # {}

\* C9: each reserved dependency that is requested settles with a synthesized
\* value: exports with an empty object, require with a loader accessor, module
\* with a descriptor of the requesting module; a define whose dependencies are
\* all reserved invokes its factory and commits.
C9_ReservedSynthesized ==
    \A r \in Reqs :
        LET rq == reqs[r]
        IN  /\ \A i \in 1..Len(rq.depIds) :
                 /\ rq.dependencies[i] = EXPORTS => rq.settled[i].kind = "object"
                 /\ rq.dependencies[i] = MODULE_
                      => rq.settled[i].kind = "descriptor" /\ rq.settled[i].str = rq.moduleId
                 /\ rq.dependencies[i] = REQUIRE => SettledOk(rq, i)
            /\ (/\ rq.state # "rejected"
                /\ IsFunction(rq.factory)
                /\ \A i \in 1..Len(rq.dependencies) : rq.dependencies[i] \in ReservedIds)
               => rq.calls = 1

\* The loads whose onload fired in this step.
Completed == { l \in loads \ loads' : reqs'[l.r].order # reqs[l.r].order }

\* C10: a dependency present in the registry when requested settles at once
\* with its export and is not loaded; an absent one is loaded, and when the
\* load completes it settles with the export if the id is then present,
\* whatever the export, and with DependencyNotLoadedError otherwise.
C10_PresentIffSettled ==
    [][/\ DefineStep =>
            \A i \in 1..Len(NewReq.depIds) :
                NewReq.depIds[i] \notin ReservedIds =>
                    IF NewReq.depIds[i] \in DOMAIN _modules
                    THEN i \notin NewReq.loaded
                         /\ NewReq.settled[i] = _modules[NewReq.depIds[i]]
                    ELSE i \in NewReq.loaded
       /\ \A l \in Completed :
            reqs'[l.r].settled[l.i] =
                IF l.id \in DOMAIN _modules
                THEN _modules[l.id]
                ELSE ErrorValue(DependencyNotLoadedError, l.id)]_vars

\* The canonical location of the unit that runs in ctx: the URL of its script,
\* or of its document for an inline script.
CanonicalLocation(ctx) == IF ctx.hasSrc THEN ctx.src ELSE ctx.baseURI

\* The commits of request r before the step.
CommitsBefore(r) == IF r <= Len(reqs) THEN reqs[r].commits ELSE 0

\* C11: every non-reserved dependency of a define call is resolved against the
\* canonical location of the defining unit cut after its last '/', whether the
\* id is explicit, inferred or an alias.
C11_BaseIsLocation ==
    \A r \in Reqs :
        \A i \in 1..Len(reqs[r].depIds) :
            reqs[r].dependencies[i] \notin ReservedIds
            => reqs[r].depIds[i] =
                 _resolveRelativeId(Dirname(CanonicalLocation(reqs[r].ctx)),
                                    reqs[r].dependencies[i])

\* C12: every change of the registry is the commit of a define call: code
\* outside the core has no way to insert, overwrite or delete an entry.
C12_OnlyDefineWrites ==
    [][_modules' # _modules =>
         \E r \in 1..Len(reqs') : reqs'[r].commits > CommitsBefore(r)]_vars

\* A define call that passed validation with a callable factory and at least
\* one dependency, and returned without raising.
Asynchronous(r) ==
    /\ reqs[r].state # "rejected"
    /\ reqs[r].thrown = NoError
    /\ IsFunction(reqs[r].factory)
    /\ Len(reqs[r].dependencies) >= 1

\* Every load that request r issued has settled, by completing or by failing.
LoadsSettled(r) == \A l \in loads : l.r # r

\* C13: once every load that such a define call issued has settled, the call
\* has reached its terminal outcome: it has committed, or it has reported one
\* dependency failure (or its factory has raised).
C13_TerminalWhenLoadsSettle ==
    \A r \in Reqs :
        Asynchronous(r) /\ LoadsSettled(r)
        => reqs[r].state \in {"committed", "failed", "threw"}

\* The reference composition of a base segment list with the segments of an id,
\* from segment i on: '.' keeps the list, '..' drops its last segment if there
\* is one, any other segment is appended.
RECURSIVE Compose(_, _, _)
Compose(terms, idTerms, i) ==
    IF i > Len(idTerms) THEN terms
    ELSE IF idTerms[i] = <<DOT>> THEN Compose(terms, idTerms, i + 1)
    ELSE IF idTerms[i] = <<DOT, DOT>>
    THEN Compose(IF Len(terms) = 0 THEN terms ELSE SubSeq(terms, 1, Len(terms) - 1),
                 idTerms, i + 1)
    ELSE Compose(terms \o <<idTerms[i]>>, idTerms, i + 1)

\* The reference result of a call: the id itself unless it starts with '.',
\* else the prefix followed by the composed segments joined by '/'.
Reference(c) ==
    IF c.idTerms[1][1] # DOT THEN c.id
    ELSE c.prefix \o Join(Compose(c.terms, c.idTerms, 1), SLASH)

\* C14: _resolveRelativeId(base, id) is the reference path composition, for
\* every base and every id over the segment alphabets.
C14_ResolveIsComposition ==
    resolution.returned => resolution.result = Reference(resolution)

\* A '..' on an empty segment list under a prefix: the prefix is kept.
C14_Witness ==
    /\ resolution.returned
    /\ resolution.prefix = Authority
    /\ resolution.terms = <<"a">>
    /\ resolution.idTerms = << <<DOT, DOT>>, <<DOT, DOT>>, <<"c">> >>
    /\ resolution.result = Authority \o <<"c">>

\* The factory of rq raises when it is invoked.
Raises(rq) == IsFunction(rq.factory) /\ Apply(rq.factory, rq.args).threw

\* C15: when the factory of a define call raises, the exception leaves the
\* core uncaught (define raises it when the factory ran inside define), the
\* step writes nothing to the registry, the call never commits, and its
\* factory is not invoked again.
C15_FactoryRaises ==
    [][\A r \in 1..Len(reqs') :
          LET rq == reqs'[r]
          IN  (Raises(rq) /\ rq.calls > 0)
              => /\ rq.state = "threw"
                 /\ rq.calls = 1
                 /\ rq.commits = 0
                 /\ (rq.calls > CallsBefore(r)
                       => /\ _modules' = _modules
                          /\ (DefineStep => rq.thrown = FactoryError))
                 /\ (rq.calls = CallsBefore(r) => rq = reqs[r])]_vars

\* A factory that raised when the last load of its define call completed;
\* its id is not in the registry.
C15_Witness ==
    \E r \in Reqs :
        /\ Raises(reqs[r])
        /\ reqs[r].calls = 1
        /\ reqs[r].loaded # {}
        /\ reqs[r].state = "threw"
        /\ reqs[r].moduleId \notin DOMAIN _modules
        /\ _modules # <<>>

\* The id under which define requests the i-th declared dependency of rq.
RequestedId(rq, i) ==
    _resolveRelativeId(Dirname(_inferModuleId(rq.ctx).id), rq.dependencies[i])

\* Every declared dependency of rq (there may be none) is an entry of the
\* registry reg.
AllPresent(rq, reg) ==
    \A i \in 1..Len(rq.dependencies) :
        /\ rq.dependencies[i] \notin ReservedIds
        /\ RequestedId(rq, i) \in DOMAIN reg

\* C16: a define call that passes validation with a callable factory whose
\* declared dependencies are all in the registry at the call (in particular
\* with none declared) invokes the factory once inside define, with the
\* exports of the dependencies (no argument when there is none), issues no
\* load, and has committed what the factory returns when define returns.
C16_SynchronousCommit ==
    [][DefineStep =>
         LET rq == NewReq
         IN  (IsFunction(rq.factory) /\ rq.state # "rejected" /\ AllPresent(rq, _modules))
             => /\ rq.calls = 1
                /\ Len(rq.args) = Len(rq.dependencies)
                /\ \A i \in 1..Len(rq.args) : rq.args[i] = _modules[RequestedId(rq, i)]
                /\ rq.loaded = {}
                /\ loads' = loads
                /\ (~Raises(rq)
                      => /\ rq.state = "committed"
                         /\ rq.ret = Apply(rq.factory, rq.args).val
                         /\ _modules' = Put(_modules, rq.moduleId, rq.ret))]_vars

\* A define call whose one dependency was in the registry at the call: it has
\* committed that export without a load.
C16_Witness ==
    \E r \in Reqs :
        /\ IsFunction(reqs[r].factory)
        /\ Len(reqs[r].dependencies) = 1
        /\ reqs[r].loaded = {}
        /\ reqs[r].calls = 1
        /\ reqs[r].state = "committed"
        /\ reqs[r].args = <<Num("42")>>
        /\ reqs[r].moduleId \in DOMAIN _modules
        /\ _modules[reqs[r].moduleId] = Num("42")

\* The execution context lets the inspector produce an id: there is a current
\* script, and it carries an alias or its document has a base URI.
CanInfer(ctx) == ctx.script /\ (ctx.hasAs \/ ctx.baseURI # <<>>)

\* C17: every define call runs the inspector once, before any validation and
\* whether or not the caller gives an id; when the inspector cannot produce an
\* id, define raises its error (not a validation error), the registry is
\* unchanged, no dependency is requested and the factory is not invoked.
C17_InferenceFirst ==
    [][DefineStep =>
         LET rq == NewReq
         IN  /\ rq.inferCalls = 1
             /\ (~CanInfer(rq.ctx)
                   => /\ rq.thrown \in InferenceErrors
                      /\ rq.state = "rejected"
                      /\ _modules' = _modules
                      /\ loads' = loads
                      /\ rq.depIds = <<>>
                      /\ rq.loaded = {}
                      /\ rq.calls = 0
                      /\ rq.commits = 0)]_vars

\* A define call with an explicit id (one with a backslash, even) made where
\* the document has no base URI: it failed on the inference.
C17_Witness ==
    \E r \in Reqs :
        /\ ~CanInfer(reqs[r].ctx)
        /\ reqs[r].moduleId = AB
        /\ reqs[r].thrown = NoBaseURIError
        /\ reqs[r].state = "rejected"
        /\ reqs[r].calls = 0

\* The unit of module q has called define with a callable factory, passed
\* validation, and waits for (or has got) a dependency that had to be loaded.
DefinedTransitively(q) ==
    /\ IsFunction(reqs[q].factory)
    /\ reqs[q].thrown = NoError
    /\ reqs[q].state \in {"waiting", "committed"}
    /\ reqs[q].loaded # {}

\* C18: when a is defined with a dependency on b, the unit loaded for b defines
\* b with a dependency on c that has to be loaded too, and every load
\* completes, a never fails with DependencyNotLoadedError for b.
C18_TransitiveLoad ==
    \A r, q \in Reqs :
        DefinedTransitively(q)
        => ~ /\ reqs[r].state = "failed"
             /\ reqs[r].error = ErrorValue(DependencyNotLoadedError, reqs[q].moduleId)
====
